---- MODULE Spec2Model ----
(***************************************************************************)
(* Model of the calendar application (src/app.py): the per-identity event  *)
(* store, the identity resolver, and the two reconciliation directions     *)
(* pull (import_google_to_local) and push (google_sync).                   *)
(*                                                                         *)
(* Python dicts are modelled as functions whose DOMAIN is the set of keys  *)
(* present, so that `k in d` and `d.get(k, default)` keep their meaning.   *)
(***************************************************************************)
EXTENDS Integers, Sequences, FiniteSets, Bags, TLC

VARIABLES
    GOOGLE_OAUTH_ENABLED, \* app.py:27-31, fixed at start-up
    session,              \* per browser session: the Flask session dict
    files,                \* EVENTS_DIR: path -> [valid, data]
    google,               \* the remote calendar: bag of event resources
    nextUid,              \* history: number of add_event requests served
    resp,                 \* the HTTP response of the last request
    trace,                \* history: what the last request did internally
    codec,                \* a batch of colours sent through the colour codec
    inflight              \* the requests the server is in the middle of

vars == <<GOOGLE_OAUTH_ENABLED, session, files, google, nextUid,
          resp, trace, codec, inflight>>

----------------------------------------------------------------------------
(* Bounds of the model *)

MaxAdds == 2
MaxRemote == 2
MaxBatch == 2

----------------------------------------------------------------------------
(* Generic helpers *)

\* dict.get(k, default)
Get(d, k, default) == IF k \in DOMAIN d THEN d[k] ELSE default

\* the empty dict
EmptyDict == [k \in {} |-> TRUE]

\* d with key k set to v
Put(d, k, v) == [x \in (DOMAIN d) \cup {k} |-> IF x = k THEN v ELSE d[x]]

Range(seq) == {seq[i] : i \in 1..Len(seq)}

\* prefix s[:n]
Take(s, n) == SubSeq(s, 1, IF Len(s) < n THEN Len(s) ELSE n)

----------------------------------------------------------------------------
(* Configuration constants of app.py *)

EVENTS_DIR == "user_events"

\* the dict literal GOOGLE_COLOR_MAP as its items, in the order written
GOOGLE_COLOR_MAP ==
    << <<"#4285f4", "1">>,
       <<"#dc2127", "11">>,
       <<"#f4b400", "5">>,
       <<"#0f9d58", "10">>,
       <<"#ff6d00", "6">>,
       <<"#7986cb", "9">>,
       <<"#33b679", "2">>,
       <<"#8e24aa", "3">>,
       <<"#e67c73", "4">>,
       <<"#616161", "8">> >>

\* the 16-character string made of the character c
Chars16(c) == [i \in 1..16 |-> c]

----------------------------------------------------------------------------
(* Inputs of the model *)

Browsers == {"b1", "b2"}

\* access tokens handed out by the OAuth flow (strings as character tuples);
\* TokenA and TokenB agree on their first 16 characters
TokenA == Chars16("x") \o <<"A">>
TokenB == Chars16("x") \o <<"B">>
TokenC == Chars16("y") \o <<"C">>

\* values secrets.token_hex(8) can return: 16 hex characters
TokenHex == {Chars16("a"), Chars16("b")}

\* the value it returns to the one browser of the main specification
MainHex == {Chars16("a")}

\* request bodies posted to /events
AddInputs ==
    { [title |-> "Gym", date |-> "2025-06-10", time |-> "18:00", duration |-> 60],
      [title |-> "Run", date |-> "2025-06-10", time |-> "9:00", duration |-> 30,
       color |-> "#dc2127"] }

\* event resources other clients put into the remote calendar; a date-time is
\* [day, min]: the day number and the minute of the day of its wall-clock time
RemoteInputs ==
    { [summary |-> "Gym", start |-> [dateTime |-> [day |-> 0, min |-> 1080]],
       end |-> [dateTime |-> [day |-> 0, min |-> 1140]]],
      [summary |-> "Gym", start |-> [date |-> 0], end |-> [date |-> 1],
       colorId |-> "7"],
      [start |-> [dateTime |-> [day |-> 0, min |-> 1080]],
       end |-> [date |-> 1]] }

----------------------------------------------------------------------------
(* Dates and times: datetime.strptime / strftime *)

Digit == <<"0", "1", "2", "3", "4", "5", "6", "7", "8", "9">>

TwoDigits(n) == Digit[(n \div 10) + 1] \o Digit[(n % 10) + 1]

\* strftime('%H:%M') of a minute of the day
FormatHM(min) == TwoDigits(min \div 60) \o ":" \o TwoDigits(min % 60)

\* strftime('%Y-%m-%d') of a day number (day 0 is 2025-06-10)
FormatDate(day) == "2025-06-" \o TwoDigits(10 + day)

\* strptime(.., '%H:%M'): the minute of the day, -1 for a ValueError;
\* %H accepts one or two digits
ParseHM(text) ==
    CASE text = "18:00" -> 1080
      [] text = "9:00" -> 540
      [] text = "09:00" -> 540
      [] text = "00:00" -> 0
      [] OTHER -> -1

\* strptime(.., '%Y-%m-%d'): the day number, -1 for a ValueError
ParseDate(text) ==
    CASE text = "2025-06-10" -> 0
      [] text = "2025-06-11" -> 1
      [] OTHER -> -1

\* start + timedelta(minutes=d)
AddMinutes(dt, d) ==
    [day |-> dt.day + ((dt.min + d) \div 1440), min |-> (dt.min + d) % 1440]

\* int((end_dt - start_dt).total_seconds() / 60)
MinutesBetween(a, b) == (b.day - a.day) * 1440 + (b.min - a.min)

----------------------------------------------------------------------------
(* Identity resolver *)

\* get_user_id: the first 16 characters of the access token, <<>> for None
get_user_id(sess) ==
    IF "credentials" \notin DOMAIN sess THEN <<>>
    ELSE Take(sess["credentials"].token, 16)

\* a slip: the guest file name leaves the session token out
get_shared_guest_file(sess, fresh) ==
    LET user_id == IF "credentials" \notin DOMAIN sess THEN <<>>
                   ELSE Take(sess["credentials"].token, 16)
    IN  IF user_id = <<>>
        THEN [file |-> <<EVENTS_DIR, "guest_", <<>>, ".json">>,
              session |-> IF "session_id" \in DOMAIN sess THEN sess
                          ELSE Put(sess, "session_id", fresh)]
        ELSE [file |-> <<EVENTS_DIR, "user_", user_id, ".json">>,
              session |-> sess]

\* get_user_events_file: the path of the partition file and the session
\* after the call; fresh is what secrets.token_hex(8) returns if it is called
get_user_events_file(sess, fresh) ==
    LET user_id == get_user_id(sess)
    IN  IF user_id = <<>>
        THEN LET session_id == Get(sess, "session_id", <<>>)
                 minted == IF session_id = <<>> THEN fresh ELSE session_id
             IN  [file |-> <<EVENTS_DIR, "guest_", minted, ".json">>,
                  session |-> IF session_id = <<>>
                              THEN Put(sess, "session_id", fresh) ELSE sess]
        ELSE [file |-> <<EVENTS_DIR, "user_", user_id, ".json">>,
              session |-> sess]

----------------------------------------------------------------------------
(* Event store *)

\* a slip: the exception of json.load on an unreadable file is not caught
load_events_uncaught(fs, path) ==
    IF path \in DOMAIN fs
    THEN IF fs[path].valid
         THEN [raised |-> FALSE, value |-> fs[path].data]
         ELSE [raised |-> TRUE, value |-> <<>>]
    ELSE [raised |-> FALSE, value |-> <<>>]

\* load_events on the file at path: [raised, value]; every exception of
\* open/json.load is caught, a missing or unreadable file gives []
load_events(fs, path) ==
    IF path \in DOMAIN fs
    THEN IF fs[path].valid
         THEN [raised |-> FALSE, value |-> fs[path].data]
         ELSE [raised |-> FALSE, value |-> <<>>]
    ELSE [raised |-> FALSE, value |-> <<>>]

\* a slip: the save keeps the events the file holds that the list lacks
save_events_merging(fs, path, data, written) ==
    IF written = "open_failed" THEN fs
    ELSE [q \in (DOMAIN fs) \cup {path} |->
            IF q # path THEN fs[q]
            ELSE IF written = "written"
            THEN [valid |-> TRUE,
                  data |-> data \o
                      (IF path \in DOMAIN fs
                       THEN SelectSeq(fs[path].data,
                                      LAMBDA e : \A i \in 1..Len(data) : data[i] # e)
                       ELSE <<>>)]
            ELSE [valid |-> FALSE, data |-> <<>>]]

\* save_events: the directory after the call; written tells how far the
\* write got: "written" when open and json.dump went through, "open_failed"
\* when open(.., "w") raised, "dump_failed" when json.dump or the close
\* raised after open had truncated the file. A failure is printed and
\* swallowed
save_events(fs, path, data, written) ==
    IF written = "open_failed" THEN fs
    ELSE [q \in (DOMAIN fs) \cup {path} |->
            IF q # path THEN fs[q]
            ELSE IF written = "written" THEN [valid |-> TRUE, data |-> data]
            ELSE [valid |-> FALSE, data |-> <<>>]]

\* outcomes of a write where the disk takes every write
WriteOutcomes == {"written"}

\* outcomes of a write where it may not
FaultyWriteOutcomes == {"written", "open_failed", "dump_failed"}

----------------------------------------------------------------------------
(* Colour codec *)

\* the value a dict built from items holds for key: a later item with the
\* same key overwrites an earlier one
Lookup(items, key, default) ==
    LET hits == {i \in 1..Len(items) : items[i][1] = key}
    IN  IF hits = {} THEN default
        ELSE items[CHOOSE i \in hits : \A j \in hits : j <= i][2]

\* GOOGLE_COLOR_MAP.get(color, '1')
ToRemoteId(color) == Lookup(GOOGLE_COLOR_MAP, color, "1")

\* a slip: the reverse table is written out by hand, two ids swapped
color_map_reverse_by_hand ==
    << <<"1", "#4285f4">>,
       <<"11", "#dc2127">>,
       <<"5", "#f4b400">>,
       <<"10", "#0f9d58">>,
       <<"6", "#ff6d00">>,
       <<"9", "#7986cb">>,
       <<"3", "#33b679">>,
       <<"2", "#8e24aa">>,
       <<"4", "#e67c73">>,
       <<"8", "#616161">> >>

\* color_map_reverse = {v: k for k, v in GOOGLE_COLOR_MAP.items()}
color_map_reverse ==
    [i \in 1..Len(GOOGLE_COLOR_MAP) |->
        <<GOOGLE_COLOR_MAP[i][2], GOOGLE_COLOR_MAP[i][1]>>]

\* a slip: an id the table lacks is handed on as the colour
ToLocalHexKeeping(color_id) == Lookup(color_map_reverse, color_id, color_id)

\* color_map_reverse.get(color_id, '#4285f4')
ToLocalHex(color_id) == Lookup(color_map_reverse, color_id, "#4285f4")

----------------------------------------------------------------------------
(* Remote event adapter *)

\* parse_google_event_to_local: the local event, EmptyDict for None (a
\* KeyError of a missing key is caught and gives None)
parse_google_event_to_local(google_event) ==
    IF {"start", "end"} \subseteq DOMAIN google_event
    THEN LET start == google_event["start"]
             end == google_event["end"]
             timed == "dateTime" \in DOMAIN start
         IN  IF timed /\ "dateTime" \notin DOMAIN end THEN EmptyDict
             ELSE IF ~timed /\ "date" \notin DOMAIN start THEN EmptyDict
             ELSE [title |-> Get(google_event, "summary", "Bez tytulu"),
                   date |-> IF timed THEN FormatDate(start["dateTime"].day)
                            ELSE FormatDate(start["date"]),
                   time |-> IF timed THEN FormatHM(start["dateTime"].min)
                            ELSE "00:00",
                   duration |-> IF timed
                                THEN MinutesBetween(start["dateTime"],
                                                    end["dateTime"])
                                ELSE 1440,
                   description |-> Get(google_event, "description", ""),
                   color |-> ToLocalHex(Get(google_event, "colorId", "1")),
                   imported_from_google |-> TRUE]
    ELSE EmptyDict

\* the start instant orderBy='startTime' sorts by
StartKey(g) ==
    IF "dateTime" \in DOMAIN g["start"]
    THEN g["start"]["dateTime"].day * 1440 + g["start"]["dateTime"].min
    ELSE g["start"]["date"] * 1440

RECURSIVE Listings(_)
\* events().list(.., orderBy='startTime'): the orders the calendar can return
\* its events in, events with equal start in any order
Listings(calendar) ==
    IF BagToSet(calendar) = {} THEN {<<>>}
    ELSE LET first == {g \in BagToSet(calendar) :
                          \A h \in BagToSet(calendar) : StartKey(g) <= StartKey(h)}
         IN  UNION {{<<g>> \o rest : rest \in Listings(calendar (-) SetToBag({g}))}
                    : g \in first}

----------------------------------------------------------------------------
(* Responses and the history of a request *)

Response(op, status, body) == [op |-> op, status |-> status, body |-> body]

\* Flask answers an exception no handler catches with 500
Uncaught(op) == Response(op, 500, [error |-> "Internal Server Error"])

\* who took the last step (a browser's request, or the environment), the
\* partition files the request opened, the local events its remote inserts
\* went through for, its skipped counter, the number of remote events
\* it worked with, and how its list request ended ("none": it made none)
Did(b, opened, inserted, skipped, remote) ==
    [who |-> b, opened |-> opened, inserted |-> inserted, skipped |-> skipped,
     remote |-> remote, fetch |-> "none"]

\* the same for a request that made a list request; listed tells whether
\* the list request went through
DidFetch(b, opened, remote, listed) ==
    [who |-> b, opened |-> opened, inserted |-> <<>>, skipped |-> 0,
     remote |-> remote, fetch |-> IF listed THEN "ok" ELSE "failed"]

\* the threads of the server: a request runs in a thread of its own, side
\* by side with the requests of the other threads
Tabs == {"t1", "t2"}

\* the thread a request gets when none is busy
FirstTab == "t1"

\* the browser whose tabs send the requests, all with its session cookie
TabBrowser == "b1"

\* a thread with no request. The other fields
\* are the locals of the handler it runs: the list load_events gave, what
\* is left of the loop, the counters, the local events whose insert went
\* through, and for save_events the file it opened, the events the file
\* held right before, and the list it writes; todo[next] is the item the
\* loop takes up next
Idle ==
    [pc |-> "idle", op |-> "none", events |-> <<>>, todo |-> <<>>,
     next |-> 1, count |-> 0, skipped |-> 0, inserted |-> <<>>, file |-> <<>>,
     before |-> <<>>, data |-> <<>>]

\* the history did of a request that called save_events, with how far its
\* write got
Saved(did, written) == Put(did, "write", written)

InitApp ==
    /\ GOOGLE_OAUTH_ENABLED \in BOOLEAN
    /\ inflight = [sent |-> 0, tab |-> [t \in Tabs |-> Idle]]
    /\ session = [b \in Browsers |-> EmptyDict]
    /\ files = EmptyDict
    /\ google = EmptyBag
    /\ nextUid = 0
    /\ resp = Response("none", 0, EmptyDict)
    /\ trace = Did("none", {}, <<>>, 0, 0)

Init ==
    /\ InitApp
    /\ codec = [stage |-> "idle", hex |-> <<>>, color_id |-> <<>>, color |-> <<>>]

----------------------------------------------------------------------------
(* Local event routes *)

\* GET /events
get_events(b, fresh) ==
    LET at == get_user_events_file(session[b], fresh)
        loaded == load_events(files, at.file)
    IN  /\ session' = [session EXCEPT ![b] = at.session]
        /\ resp' = IF loaded.raised THEN Uncaught("get_events")
                   ELSE Response("get_events", 200, [events |-> loaded.value])
        /\ trace' = Did(b, {at.file}, <<>>, 0, 0)
        /\ UNCHANGED <<inflight, GOOGLE_OAUTH_ENABLED, files, google, nextUid, codec>>

\* POST /events; the stored dict also carries the history key uid, the
\* number of the add_event request that created it
add_event(b, data, fresh, written) ==
    LET at == get_user_events_file(session[b], fresh)
        loaded == load_events(files, at.file)
        coloured == IF "color" \notin DOMAIN data
                    THEN Put(data, "color", "#4285f4") ELSE data
        events == Append(loaded.value, Put(coloured, "uid", nextUid + 1))
    IN  /\ nextUid < MaxAdds
        /\ nextUid' = nextUid + 1
        /\ session' = [session EXCEPT ![b] = at.session]
        /\ IF loaded.raised
           THEN /\ files' = files
                /\ resp' = Uncaught("add_event")
           ELSE /\ files' = save_events(files, at.file, events, written)
                /\ resp' = Response("add_event", 200, [success |-> TRUE])
        /\ trace' = IF loaded.raised THEN Did(b, {at.file}, <<>>, 0, 0)
                    ELSE Saved(Did(b, {at.file}, <<>>, 0, 0), written)
        /\ UNCHANGED <<inflight, GOOGLE_OAUTH_ENABLED, google, codec>>

\* a slip: pop() without the index removes the last event
PopLast(events, index) == SubSeq(events, 1, Len(events) - 1)

\* events.pop(index)
Pop(events, index) ==
    SubSeq(events, 1, index) \o SubSeq(events, index + 2, Len(events))

\* DELETE /events/<int:index>; the history of the request also holds the
\* index
delete_event(b, index, fresh, written) ==
    LET at == get_user_events_file(session[b], fresh)
        loaded == load_events(files, at.file)
    IN  /\ session' = [session EXCEPT ![b] = at.session]
        /\ IF loaded.raised
           THEN /\ files' = files
                /\ resp' = Uncaught("delete_event")
           ELSE IF 0 <= index /\ index < Len(loaded.value)
           THEN /\ files' = save_events(files, at.file,
                                        Pop(loaded.value, index), written)
                /\ resp' = Response("delete_event", 200, [success |-> TRUE])
           ELSE /\ files' = files
                /\ resp' = Response("delete_event", 404, [error |-> "Not found"])
        /\ trace' = Put(IF ~loaded.raised /\ 0 <= index
                            /\ index < Len(loaded.value)
                         THEN Saved(Did(b, {at.file}, <<>>, 0, 0), written)
                         ELSE Did(b, {at.file}, <<>>, 0, 0),
                         "index", index)
        /\ UNCHANGED <<inflight, GOOGLE_OAUTH_ENABLED, google, nextUid, codec>>

----------------------------------------------------------------------------
(* Session routes *)

\* GET /guest
guest_mode(b) ==
    /\ session' = [session EXCEPT ![b] = [guest_mode |-> TRUE]]
    /\ resp' = Response("guest_mode", 302, [location |-> "/?mode=guest"])
    /\ trace' = Did(b, {}, <<>>, 0, 0)
    /\ UNCHANGED <<inflight, GOOGLE_OAUTH_ENABLED, files, google, nextUid, codec>>

\* GET /google/login
google_login(b) ==
    /\ IF ~GOOGLE_OAUTH_ENABLED
       THEN /\ session' = session
            /\ resp' = Response("google_login", 503,
                                [error |-> "Google OAuth not configured"])
       ELSE /\ session' = [session EXCEPT ![b] = Put(@, "state", TRUE)]
            /\ resp' = Response("google_login", 302, [location |-> "google"])
    /\ trace' = Did(b, {}, <<>>, 0, 0)
    /\ UNCHANGED <<inflight, GOOGLE_OAUTH_ENABLED, files, google, nextUid, codec>>

\* GET /oauth2callback; token is the access token fetch_token obtains,
\* fetched tells whether fetch_token went through
oauth2callback(b, token, fetched) ==
    /\ IF GOOGLE_OAUTH_ENABLED /\ "state" \in DOMAIN session[b] /\ fetched
       THEN /\ session' = [session EXCEPT ![b] =
                             Put(Put(@, "credentials", [token |-> token]),
                                 "guest_mode", FALSE)]
            /\ resp' = Response("oauth2callback", 302,
                                [location |-> "/?auth=success"])
       ELSE /\ session' = session
            /\ resp' = Response("oauth2callback", 302,
                                [location |-> "/?auth=error"])
    /\ trace' = Did(b, {}, <<>>, 0, 0)
    /\ UNCHANGED <<inflight, GOOGLE_OAUTH_ENABLED, files, google, nextUid, codec>>

\* GET /google/logout: removes the guest file of a guest session
google_logout(b) ==
    LET sess == session[b]
        guest_file == <<EVENTS_DIR, "guest_", sess["session_id"], ".json">>
        removes == /\ Get(sess, "guest_mode", FALSE)
                   /\ "session_id" \in DOMAIN sess
                   /\ guest_file \in DOMAIN files
    IN  /\ files' = IF removes
                    THEN [q \in (DOMAIN files) \ {guest_file} |-> files[q]]
                    ELSE files
        /\ session' = [session EXCEPT ![b] = EmptyDict]
        /\ resp' = Response("google_logout", 302, [location |-> "/"])
        /\ trace' = Did(b, IF removes THEN {guest_file} ELSE {}, <<>>, 0, 0)
        /\ UNCHANGED <<inflight, GOOGLE_OAUTH_ENABLED, google, nextUid, codec>>

----------------------------------------------------------------------------
(* Reconciliation engine: pull *)

\* a slip: the service is built without looking for the credentials
HasServiceUnchecked(sess) == TRUE

\* get_calendar_service() returns a service
HasService(sess) == "credentials" \in DOMAIN sess

\* a slip: the duplicate check is missing
ExistsNever(local_events, local_event) == FALSE

\* a slip: the duplicate check leaves the time out
ExistsSameDay(local_events, local_event) ==
    \E i \in 1..Len(local_events) :
        /\ local_events[i]["title"] = local_event["title"]
        /\ local_events[i]["date"] = local_event["date"]

\* any(e['title'] == .. and e['date'] == .. and e['time'] == .. for e in ..)
Exists(local_events, local_event) ==
    \E i \in 1..Len(local_events) :
        /\ local_events[i]["title"] = local_event["title"]
        /\ local_events[i]["date"] = local_event["date"]
        /\ local_events[i]["time"] = local_event["time"]

RECURSIVE ImportLoopInserting(_, _, _)
\* a slip: insert(0, ..) instead of append puts the new event first
ImportLoopInserting(google_events, local_events, imported_count) ==
    IF google_events = <<>>
    THEN [local_events |-> local_events, imported_count |-> imported_count]
    ELSE LET local_event == parse_google_event_to_local(Head(google_events))
         IN  IF DOMAIN local_event # {} /\ ~Exists(local_events, local_event)
             THEN ImportLoopInserting(Tail(google_events),
                                      <<local_event>> \o local_events,
                                      imported_count + 1)
             ELSE ImportLoopInserting(Tail(google_events), local_events,
                                      imported_count)

RECURSIVE ImportLoop(_, _, _)
\* the loop over google_events: the merged list and imported_count
ImportLoop(google_events, local_events, imported_count) ==
    IF google_events = <<>>
    THEN [local_events |-> local_events, imported_count |-> imported_count]
    ELSE LET local_event == parse_google_event_to_local(Head(google_events))
         IN  IF DOMAIN local_event # {} /\ ~Exists(local_events, local_event)
             THEN ImportLoop(Tail(google_events),
                             Append(local_events, local_event),
                             imported_count + 1)
             ELSE ImportLoop(Tail(google_events), local_events, imported_count)

\* POST /google/import-to-local; listed tells whether events().list() went
\* through, google_events is what it returned
import_google_to_local(b, listed, google_events, fresh, written) ==
    LET at == get_user_events_file(session[b], fresh)
        loaded == load_events(files, at.file)
        merged == ImportLoop(google_events, loaded.value, 0)
    IN  /\ IF ~HasService(session[b])
           THEN /\ resp' = Response("import_google_to_local", 401,
                                    [auth_required |-> TRUE])
                /\ trace' = Did(b, {}, <<>>, 0, 0)
                /\ UNCHANGED <<session, files>>
           ELSE IF ~listed
           THEN /\ resp' = Response("import_google_to_local", 500,
                                    [error |-> "HttpError"])
                /\ trace' = DidFetch(b, {}, 0, FALSE)
                /\ UNCHANGED <<session, files>>
           ELSE /\ session' = [session EXCEPT ![b] = at.session]
                /\ trace' = IF loaded.raised
                            THEN DidFetch(b, {at.file}, Len(google_events), TRUE)
                            ELSE Saved(DidFetch(b, {at.file},
                                                Len(google_events), TRUE),
                                       written)
                /\ IF loaded.raised
                   THEN /\ files' = files
                        /\ resp' = Response("import_google_to_local", 500,
                                            [error |-> "load"])
                   ELSE /\ files' = save_events(files, at.file,
                                                merged.local_events, written)
                        /\ resp' = Response("import_google_to_local", 200,
                                            [success |-> TRUE,
                                             count |-> merged.imported_count])
        /\ UNCHANGED <<inflight, GOOGLE_OAUTH_ENABLED, google, nextUid, codec>>

----------------------------------------------------------------------------
(* Reconciliation engine: push *)

\* a slip: the flag is not looked at
ImportedNever(e) == FALSE

\* e.get('imported_from_google', False)
Imported(e) == Get(e, "imported_from_google", FALSE)

\* the body of the insert request for a local event whose date and time
\* parse, with the history key origin: the uid of the local event
InsertBody(e) ==
    LET start == [day |-> ParseDate(e["date"]), min |-> ParseHM(e["time"])]
    IN  [summary |-> e["title"],
         start |-> [dateTime |-> start, timeZone |-> "Europe/Warsaw"],
         end |-> [dateTime |-> AddMinutes(start, e["duration"]),
                  timeZone |-> "Europe/Warsaw"],
         colorId |-> ToRemoteId(Get(e, "color", "#4285f4")),
         origin |-> Get(e, "uid", 0)]

RECURSIVE SyncLoop(_, _, _, _, _)
\* the loop over events; fail_at is the number of the insert request that
\* raises HttpError (0: none does). Gives how the loop ended, the counters
\* and the local events whose insert went through, in order
SyncLoop(events, fail_at, synced, skipped, inserted) ==
    IF events = <<>>
    THEN [ended |-> "done", synced |-> synced, skipped |-> skipped,
          inserted |-> inserted]
    ELSE LET e == Head(events)
         IN  IF Imported(e)
             THEN SyncLoop(Tail(events), fail_at, synced, skipped + 1, inserted)
             ELSE IF ParseDate(e["date"]) < 0 \/ ParseHM(e["time"]) < 0
             THEN [ended |-> "ValueError", synced |-> synced,
                   skipped |-> skipped, inserted |-> inserted]
             ELSE IF fail_at = synced + 1
             THEN [ended |-> "HttpError", synced |-> synced,
                   skipped |-> skipped, inserted |-> inserted]
             ELSE SyncLoop(Tail(events), fail_at, synced + 1, skipped,
                           Append(inserted, e))

\* a slip: nothing is pruned after the loop
RemainingAll(events) == events

\* remaining_events = [e for e in events if e.get('imported_from_google', False)]
Remaining(events) == SelectSeq(events, Imported)

\* a slip: the save sits in a finally clause and runs after a failed insert too
SavesAlways(ended) == TRUE

\* whether the save after the loop is reached: an exception raised in the
\* loop leaves the function before it
Saves(ended) == ended = "done"

RECURSIVE InsertAll(_, _)
\* the calendar after the insert requests for the events of inserted
InsertAll(calendar, inserted) ==
    IF inserted = <<>> THEN calendar
    ELSE InsertAll(calendar (+) SetToBag({InsertBody(Head(inserted))}),
                   Tail(inserted))

\* POST /google/sync
google_sync(b, fail_at, fresh, written) ==
    LET at == get_user_events_file(session[b], fresh)
        loaded == load_events(files, at.file)
        loop == SyncLoop(loaded.value, fail_at, 0, 0, <<>>)
    IN  IF ~GOOGLE_OAUTH_ENABLED
        THEN /\ fail_at = 0
             /\ resp' = Response("google_sync", 503,
                                 [error |-> "Google OAuth not configured"])
             /\ trace' = Did(b, {}, <<>>, 0, 0)
             /\ UNCHANGED <<inflight, GOOGLE_OAUTH_ENABLED, session, files, google,
                            nextUid, codec>>
        ELSE IF "credentials" \notin DOMAIN session[b] \/ ~HasService(session[b])
        THEN /\ fail_at = 0
             /\ resp' = Response("google_sync", 401, [auth_required |-> TRUE])
             /\ trace' = Did(b, {}, <<>>, 0, 0)
             /\ UNCHANGED <<inflight, GOOGLE_OAUTH_ENABLED, session, files, google,
                            nextUid, codec>>
        ELSE IF loaded.raised
        THEN /\ fail_at = 0
             /\ session' = [session EXCEPT ![b] = at.session]
             /\ resp' = Uncaught("google_sync")
             /\ trace' = Did(b, {at.file}, <<>>, 0, 0)
             /\ UNCHANGED <<inflight, GOOGLE_OAUTH_ENABLED, files, google, nextUid, codec>>
        ELSE /\ IF fail_at = 0 THEN loop.ended # "HttpError"
                ELSE loop.ended = "HttpError"
             /\ BagCardinality(google) + Len(loop.inserted) <= MaxRemote
             /\ session' = [session EXCEPT ![b] = at.session]
             /\ google' = InsertAll(google, loop.inserted)
             /\ trace' = IF Saves(loop.ended)
                         THEN Saved(Did(b, {at.file}, loop.inserted,
                                        loop.skipped, 0), written)
                         ELSE Did(b, {at.file}, loop.inserted, loop.skipped, 0)
             /\ files' = IF Saves(loop.ended)
                         THEN save_events(files, at.file,
                                          Remaining(loaded.value), written)
                         ELSE files
             /\ resp' = IF loop.ended = "done"
                        THEN Response("google_sync", 200,
                                      [success |-> TRUE, synced |-> loop.synced])
                        ELSE IF loop.ended = "HttpError"
                        THEN Response("google_sync", 500, [error |-> "HttpError"])
                        ELSE Uncaught("google_sync")
             /\ UNCHANGED <<inflight, GOOGLE_OAUTH_ENABLED, nextUid, codec>>

----------------------------------------------------------------------------
(* Scheduling advisor *)

\* get_google_calendar_events: the remote window for display and context,
\* [] without a service and on any exception: of the list request, or the
\* KeyError of an event without start or end
get_google_calendar_events(sess, listed, google_events) ==
    IF ~HasService(sess) \/ ~listed THEN <<>>
    ELSE IF \E i \in 1..Len(google_events) :
               ~({"start", "end"} \subseteq DOMAIN google_events[i])
    THEN <<>>
    ELSE [i \in 1..Len(google_events) |->
            LET start == google_events[i]["start"]
                end == google_events[i]["end"]
            IN  [title |-> Get(google_events[i], "summary", "Bez tytulu"),
                 start |-> Get(start, "dateTime", Get(start, "date", "None")),
                 end |-> Get(end, "dateTime", Get(end, "date", "None")),
                 description |-> Get(google_events[i], "description", "")]]

\* what the advisor can answer: the call raises, its text holds no {...}
\* span, json.loads raises on the span, or the span is the JSON object
\* data. The duration of data is the text of its JSON value
AdvisorReplies ==
    { [kind |-> "exception"],
      [kind |-> "no_match"],
      [kind |-> "bad_json"],
      [kind |-> "json",
       data |-> [requested_event |->
                    [title |-> "Gym", date |-> "2025-06-11", time |-> "",
                     duration |-> "5"]]],
      [kind |-> "json",
       data |-> [requested_event |->
                    [title |-> "Gym", date |-> "2025-06-11", time |-> "18:00",
                     duration |-> "45"]]],
      [kind |-> "json",
       data |-> [requested_event |->
                    [title |-> "Gym", date |-> "2025-06-11"]]],
      [kind |-> "json",
       data |-> [requested_event |->
                    [title |-> "Gym", date |-> "2025-06-11", time |-> "18:00",
                     duration |-> "soon"]]],
      [kind |-> "json", data |-> [suggestions |-> <<>>]] }

\* int(..) of a JSON value given as text: the number, -1 for a ValueError
ParseInt(text) ==
    CASE text = "5" -> 5
      [] text = "45" -> 45
      [] text = "60" -> 60
      [] OTHER -> -1

\* the defaults analyze_event puts into the advisor's object: [raised, value]
Defaulted(event_data) ==
    LET evt == event_data["requested_event"]
        time == IF Get(evt, "time", "") = "" THEN "09:00" ELSE evt["time"]
        number == ParseInt(Get(evt, "duration", "60"))
        duration == IF number > 15 THEN number ELSE 15
        timed == IF "requested_event" \in DOMAIN event_data
                 THEN Put(event_data, "requested_event",
                          Put(Put(evt, "time", time), "duration", duration))
                 ELSE event_data
    IN  IF "requested_event" \in DOMAIN event_data /\ number < 0
        THEN [raised |-> TRUE, value |-> EmptyDict]
        ELSE [raised |-> FALSE,
              value |-> IF "suggestions" \notin DOMAIN timed
                        THEN Put(timed, "suggestions", <<>>) ELSE timed]

\* POST /analyze; described tells whether the description is non-empty.
\* The history of the request also holds the advisor's reply
analyze_event(b, described, listed, google_events, reply, fresh) ==
    LET at == get_user_events_file(session[b], fresh)
        loaded == load_events(files, at.file)
        context == get_google_calendar_events(session[b], listed, google_events)
        did == IF HasService(session[b])
               THEN DidFetch(b, {at.file}, Len(context), listed)
               ELSE Did(b, {at.file}, <<>>, 0, 0)
    IN  /\ IF ~described
           THEN /\ session' = session
                /\ resp' = Response("analyze_event", 400,
                                    [error |-> "Opis nie moze byc pusty"])
                /\ trace' = Did(b, {}, <<>>, 0, 0)
           ELSE /\ session' = [session EXCEPT ![b] = at.session]
                /\ trace' = Put(did, "reply", reply)
                /\ resp' =
                      IF loaded.raised THEN Uncaught("analyze_event")
                      ELSE IF reply.kind = "exception"
                      THEN Response("analyze_event", 500, [error |-> "exception"])
                      ELSE IF reply.kind = "no_match"
                      THEN Response("analyze_event", 500,
                                    [error |-> "Invalid JSON from AI"])
                      ELSE IF reply.kind = "bad_json"
                      THEN Response("analyze_event", 500,
                                    [error |-> "JSONDecodeError"])
                      ELSE IF Defaulted(reply.data).raised
                      THEN Response("analyze_event", 500,
                                    [error |-> "ValueError"])
                      ELSE Response("analyze_event", 200,
                                    Defaulted(reply.data).value)
        /\ UNCHANGED <<inflight, GOOGLE_OAUTH_ENABLED, files, google, nextUid,
                       codec>>

\* GET /google/import: the remote window for display only
import_google_calendar(b, listed, google_events) ==
    LET events == get_google_calendar_events(session[b], listed, google_events)
    IN  /\ resp' = Response("import_google_calendar", 200,
                            [success |-> TRUE, events |-> events,
                             count |-> Len(events)])
        /\ trace' = IF HasService(session[b])
                    THEN DidFetch(b, {}, Len(events), listed)
                    ELSE Did(b, {}, <<>>, 0, 0)
        /\ UNCHANGED <<inflight, GOOGLE_OAUTH_ENABLED, session, files, google,
                       nextUid, codec>>

----------------------------------------------------------------------------
(* The environment *)

\* another client of the remote calendar creates an event
RemoteCreate(g) ==
    /\ BagCardinality(google) < MaxRemote
    /\ google' = google (+) SetToBag({g})
    /\ trace' = Did("environment", {}, <<>>, 0, 0)
    /\ UNCHANGED <<inflight, GOOGLE_OAUTH_ENABLED, session, files, nextUid, resp, codec>>

\* a write of save_events is cut short after open(.., "w") truncated the
\* file: what is left is not valid JSON
InterruptedWrite(path) ==
    /\ path \in DOMAIN files
    /\ files[path].valid
    /\ files' = [files EXCEPT ![path] = [valid |-> FALSE, data |-> <<>>]]
    /\ trace' = Did("environment", {}, <<>>, 0, 0)
    /\ UNCHANGED <<inflight, GOOGLE_OAUTH_ENABLED, session, google, nextUid, resp, codec>>

----------------------------------------------------------------------------
(* The handlers step by step. The threaded server runs the requests of the *)
(* tabs side by side: a step is what a handler does up to and including    *)
(* one operation on the partition file or one remote call that changes the *)
(* calendar                                                                *)

\* requests the tabs send to the step-by-step handlers, all in all
MaxRequests == 2

\* the request thread t is in the middle of
Tab(t) == inflight.tab[t]

\* a new request can run in thread t: the first thread if it is free, the
\* other one if it is not
CanSend(t) ==
    /\ inflight.sent < MaxRequests
    /\ Tab(t).pc = "idle"
    /\ t = FirstTab \/ Tab(FirstTab).pc # "idle"

\* the request of thread t is answered before it loads anything
Answered(t) == [inflight EXCEPT !.sent = @ + 1]

\* the request of thread t is answered
Done(t) == [inflight EXCEPT !.tab[t] = Idle]

\* the request of thread t has loaded events from file and stands at pc
Loaded(t, op, pc, file, events, todo, data) ==
    [inflight EXCEPT !.sent = @ + 1, !.tab[t] =
        [pc |-> pc, op |-> op, events |-> events,
         todo |-> todo, next |-> 1, count |-> 0, skipped |-> 0,
         inserted |-> <<>>, file |-> file, before |-> <<>>, data |-> data]]

\* open(path, "w"): the file is created or cut to length 0, which is not
\* valid JSON
open_w(fs, path) ==
    [q \in (DOMAIN fs) \cup {path} |->
        IF q = path THEN [valid |-> FALSE, data |-> <<>>] ELSE fs[q]]

\* add_event up to save_events: load, default colour, append
add_event_load(t, data, fresh) ==
    LET at == get_user_events_file(session[TabBrowser], fresh)
        loaded == load_events(files, at.file)
        coloured == IF "color" \notin DOMAIN data
                    THEN Put(data, "color", "#4285f4") ELSE data
        events == Append(loaded.value, Put(coloured, "uid", nextUid + 1))
    IN  /\ CanSend(t)
        /\ nextUid < MaxAdds
        /\ nextUid' = nextUid + 1
        /\ session' = [session EXCEPT ![TabBrowser] = at.session]
        /\ IF loaded.raised
           THEN /\ inflight' = Answered(t)
                /\ resp' = Uncaught("add_event")
                /\ trace' = Did(TabBrowser, {at.file}, <<>>, 0, 0)
           ELSE /\ inflight' = Loaded(t, "add_event", "save", at.file, events,
                                      <<>>, events)
                /\ resp' = resp
                /\ trace' = Did(t, {at.file}, <<>>, 0, 0)
        /\ UNCHANGED <<GOOGLE_OAUTH_ENABLED, files, google, codec>>

\* save_events up to open(events_file, "w"): the path is resolved again and
\* the file is truncated
save_events_open(t, fresh) ==
    LET at == get_user_events_file(session[TabBrowser], fresh)
    IN  /\ Tab(t).pc = "save"
        /\ session' = [session EXCEPT ![TabBrowser] = at.session]
        /\ inflight' = [inflight EXCEPT
              !.tab[t].pc = "writing",
              !.tab[t].file = at.file,
              !.tab[t].before = load_events(files, at.file).value]
        /\ files' = open_w(files, at.file)
        /\ trace' = Did(t, {at.file}, <<>>, 0, 0)
        /\ UNCHANGED <<GOOGLE_OAUTH_ENABLED, google, nextUid, resp, codec>>

\* json.dump and the close write the text of data from offset 0 on. Another
\* save_events may have written the file in full since this one truncated
\* it; if that text is longer, its tail stays behind the text written now
\* and the file is not valid JSON (the length of a text is taken to grow
\* with the number of its events)
dump(fs, path, data) ==
    IF path \in DOMAIN fs /\ fs[path].valid /\ Len(fs[path].data) > Len(data)
    THEN open_w(fs, path)
    ELSE save_events(fs, path, data, "written")

\* the rest of save_events, json.dump and the close, and the answer of the
\* handler that called it; the thread keeps the locals of the request until
\* its next one
save_events_dump(t) ==
    LET mine == Tab(t)
    IN  /\ mine.pc = "writing"
        /\ files' = dump(files, mine.file, mine.data)
        /\ inflight' = [inflight EXCEPT !.tab[t].pc = "idle"]
        /\ resp' = IF mine.op = "add_event"
                   THEN Response("add_event", 200, [success |-> TRUE])
                   ELSE IF mine.op = "import_google_to_local"
                   THEN Response("import_google_to_local", 200,
                                 [success |-> TRUE, count |-> mine.count])
                   ELSE Response("google_sync", 200,
                                 [success |-> TRUE, synced |-> mine.count])
        /\ trace' = IF mine.op = "import_google_to_local"
                    THEN DidFetch(TabBrowser, {mine.file}, Len(mine.todo), TRUE)
                    ELSE Did(TabBrowser, {mine.file}, mine.inserted,
                             mine.skipped, 0)
        /\ UNCHANGED <<GOOGLE_OAUTH_ENABLED, session, google, nextUid, codec>>

\* a slip: the loop saves the list after every event it appends
ImportBodySaves(fs, path, local_events) ==
    save_events(fs, path, local_events, "written")

\* what the body of the import loop does to the partition files: nothing,
\* save_events is called once, after the loop
ImportBodyStore(fs, path, local_events) == fs

\* import_google_to_local up to the loop: the service, the list request and
\* load_events (nothing another request does between the list request and
\* the load can tell them apart from one step)
import_google_to_local_load(t, listed, google_events, fresh) ==
    LET at == get_user_events_file(session[TabBrowser], fresh)
        loaded == load_events(files, at.file)
    IN  /\ CanSend(t)
        /\ IF ~HasService(session[TabBrowser])
           THEN /\ inflight' = Answered(t)
                /\ resp' = Response("import_google_to_local", 401,
                                    [auth_required |-> TRUE])
                /\ trace' = Did(TabBrowser, {}, <<>>, 0, 0)
                /\ session' = session
           ELSE IF ~listed
           THEN /\ inflight' = Answered(t)
                /\ resp' = Response("import_google_to_local", 500,
                                    [error |-> "HttpError"])
                /\ trace' = DidFetch(TabBrowser, {}, 0, FALSE)
                /\ session' = session
           ELSE IF loaded.raised
           THEN /\ inflight' = Answered(t)
                /\ resp' = Response("import_google_to_local", 500,
                                    [error |-> "load"])
                /\ trace' = Did(TabBrowser, {at.file}, <<>>, 0, 0)
                /\ session' = [session EXCEPT ![TabBrowser] = at.session]
           ELSE /\ inflight' = Loaded(t, "import_google_to_local",
                                      IF google_events = <<>> THEN "save"
                                      ELSE "loop",
                                      at.file, loaded.value, google_events,
                                      loaded.value)
                /\ resp' = resp
                /\ trace' = Did(t, {at.file}, <<>>, 0, 0)
                /\ session' = [session EXCEPT ![TabBrowser] = at.session]
        /\ UNCHANGED <<GOOGLE_OAUTH_ENABLED, files, google, nextUid, codec>>

\* one turn of the import loop
import_google_to_local_step(t) ==
    LET mine == Tab(t)
        turn == ImportLoop(<<mine.todo[mine.next]>>, mine.events, mine.count)
    IN  /\ mine.pc = "loop"
        /\ mine.op = "import_google_to_local"
        /\ inflight' = [inflight EXCEPT
              !.tab[t].events = turn.local_events,
              !.tab[t].count = turn.imported_count,
              !.tab[t].next = mine.next + 1,
              !.tab[t].data = turn.local_events,
              !.tab[t].pc = IF mine.next = Len(mine.todo) THEN "save" ELSE "loop"]
        /\ files' = ImportBodyStore(files, mine.file, turn.local_events)
        /\ trace' = Did(t, {mine.file}, <<>>, 0, 0)
        /\ UNCHANGED <<GOOGLE_OAUTH_ENABLED, session, google, nextUid, resp,
                       codec>>

\* google_sync up to the loop
google_sync_load(t, fresh) ==
    LET at == get_user_events_file(session[TabBrowser], fresh)
        loaded == load_events(files, at.file)
    IN  /\ CanSend(t)
        /\ IF ~GOOGLE_OAUTH_ENABLED
           THEN /\ inflight' = Answered(t)
                /\ resp' = Response("google_sync", 503,
                                    [error |-> "Google OAuth not configured"])
                /\ trace' = Did(TabBrowser, {}, <<>>, 0, 0)
                /\ session' = session
           ELSE IF "credentials" \notin DOMAIN session[TabBrowser]
                   \/ ~HasService(session[TabBrowser])
           THEN /\ inflight' = Answered(t)
                /\ resp' = Response("google_sync", 401, [auth_required |-> TRUE])
                /\ trace' = Did(TabBrowser, {}, <<>>, 0, 0)
                /\ session' = session
           ELSE IF loaded.raised
           THEN /\ inflight' = Answered(t)
                /\ resp' = Uncaught("google_sync")
                /\ trace' = Did(TabBrowser, {at.file}, <<>>, 0, 0)
                /\ session' = [session EXCEPT ![TabBrowser] = at.session]
           ELSE /\ inflight' = Loaded(t, "google_sync",
                                      IF loaded.value = <<>> THEN "save"
                                      ELSE "loop",
                                      at.file, loaded.value, loaded.value,
                                      Remaining(loaded.value))
                /\ resp' = resp
                /\ trace' = Did(t, {at.file}, <<>>, 0, 0)
                /\ session' = [session EXCEPT ![TabBrowser] = at.session]
        /\ UNCHANGED <<GOOGLE_OAUTH_ENABLED, files, google, nextUid, codec>>

\* one turn of the sync loop; fails tells whether its insert request raises
\* HttpError
google_sync_step(t, fails) ==
    LET mine == Tab(t)
        turn == SyncLoop(<<mine.todo[mine.next]>>,
                         IF fails THEN mine.count + 1 ELSE 0,
                         mine.count, mine.skipped, <<>>)
    IN  /\ mine.pc = "loop"
        /\ mine.op = "google_sync"
        /\ fails => turn.ended = "HttpError"
        /\ BagCardinality(google) + Len(turn.inserted) <= MaxRemote
        /\ google' = InsertAll(google, turn.inserted)
        /\ IF turn.ended = "done"
           THEN /\ inflight' = [inflight EXCEPT
                      !.tab[t].count = turn.synced,
                      !.tab[t].skipped = turn.skipped,
                      !.tab[t].inserted = mine.inserted \o turn.inserted,
                      !.tab[t].next = mine.next + 1,
                      !.tab[t].pc = IF mine.next = Len(mine.todo) THEN "save"
                                ELSE "loop"]
                /\ resp' = resp
                /\ trace' = Did(t, {mine.file}, <<>>, 0, 0)
           ELSE /\ inflight' = Done(t)
                /\ resp' = IF turn.ended = "HttpError"
                           THEN Response("google_sync", 500,
                                         [error |-> "HttpError"])
                           ELSE Uncaught("google_sync")
                /\ trace' = Did(TabBrowser, {mine.file}, mine.inserted,
                                mine.skipped, 0)
        /\ UNCHANGED <<GOOGLE_OAUTH_ENABLED, session, files, nextUid, codec>>

\* the events other clients put into the calendar while the tabs race
RaceRemote == {g \in RemoteInputs : DOMAIN parse_google_event_to_local(g) # {}}

\* the request body the tabs post
RaceInputs == {data \in AddInputs : data["title"] = "Gym"}

NextRace ==
    \/ \E fresh \in MainHex : get_events(TabBrowser, fresh)
    \/ \E t \in Tabs, data \in RaceInputs, fresh \in MainHex :
          add_event_load(t, data, fresh)
    \/ \E t \in Tabs, listed \in BOOLEAN, google_events \in Listings(google),
          fresh \in MainHex :
          import_google_to_local_load(t, listed, google_events, fresh)
    \/ \E t \in Tabs : import_google_to_local_step(t)
    \/ \E t \in Tabs, fresh \in MainHex : google_sync_load(t, fresh)
    \/ \E t \in Tabs, fails \in BOOLEAN : google_sync_step(t, fails)
    \/ \E t \in Tabs, fresh \in MainHex : save_events_open(t, fresh)
    \/ \E t \in Tabs : save_events_dump(t)
    \/ google_login(TabBrowser)
    \/ oauth2callback(TabBrowser, TokenA, TRUE)
    \/ \E g \in RaceRemote : RemoteCreate(g)

SpecRace == Init /\ [][NextRace]_vars

----------------------------------------------------------------------------
(* The application with one browser session *)

Main == {"b1"}

MaxIndex == 2

Next ==
    \/ \E b \in Main, fresh \in MainHex : get_events(b, fresh)
    \/ \E b \in Main, data \in AddInputs, fresh \in MainHex,
          written \in WriteOutcomes : add_event(b, data, fresh, written)
    \/ \E b \in Main, index \in 0..MaxIndex, fresh \in MainHex,
          written \in WriteOutcomes : delete_event(b, index, fresh, written)
    \/ \E b \in Main : google_login(b)
    \/ \E b \in Main, fetched \in BOOLEAN : oauth2callback(b, TokenA, fetched)
    \/ \E b \in Main, listed \in BOOLEAN, google_events \in Listings(google),
          fresh \in MainHex, written \in WriteOutcomes :
          import_google_to_local(b, listed, google_events, fresh, written)
    \/ \E b \in Main, fail_at \in 0..MaxAdds, fresh \in MainHex,
          written \in WriteOutcomes : google_sync(b, fail_at, fresh, written)
    \/ \E g \in RemoteInputs : RemoteCreate(g)
    \/ \E path \in DOMAIN files : InterruptedWrite(path)

Spec == Init /\ [][Next]_vars

----------------------------------------------------------------------------
(* What the properties speak of *)

\* the events a load of the file at path gives
Stored(fs, path) == load_events(fs, path).value

\* the flag imported_from_google is set on e
Flagged(e) == "imported_from_google" \in DOMAIN e /\ e["imported_from_google"]

\* the number of events of the list with the title, date and time of e
SameTriple(events, e) ==
    Cardinality({i \in 1..Len(events) :
                    /\ events[i]["title"] = e["title"]
                    /\ events[i]["date"] = e["date"]
                    /\ events[i]["time"] = e["time"]})

\* the number of events of the calendar a push made from the local event uid
Copies(calendar, uid) ==
    LET made == {g \in BagToSet(calendar) : Get(g, "origin", 0) = uid}
        RECURSIVE Sum(_)
        Sum(S) == IF S = {} THEN 0
                  ELSE LET g == CHOOSE x \in S : TRUE
                       IN  calendar[g] + Sum(S \ {g})
    IN  Sum(made)

\* the step is the request op of a browser
Request(op) == trace'.who \in Browsers /\ resp'.op = op

\* the state is the one right after the request op of a browser
Served(op) == trace.who \in Browsers /\ resp.op = op

----------------------------------------------------------------------------
(* Push *)

\* C1. Push atomicity: when an insert request of a push fails, whichever it
\* is, the push leaves every partition file as it was: nothing is pruned.
C1_PushAtomicity ==
    [][(Request("google_sync") /\ resp'.status = 500) => files' = files]_vars

\* a push failed at its second or a later insert and the events are still stored
C1_Witness ==
    /\ Served("google_sync")
    /\ resp.status = 500
    /\ resp.body = [error |-> "HttpError"]
    /\ trace.inserted # <<>>
    /\ \E path \in trace.opened :
          \A i \in 1..Len(trace.inserted) :
              trace.inserted[i] \in Range(Stored(files, path))

\* C2. Push exclusion: after a push either every event left in the store is
\* flagged imported and every event that was not flagged before the push is
\* gone, or the push failed and the store is unchanged.
C2_PushExclusion ==
    [][Request("google_sync") =>
          \/ resp'.status # 200 /\ files' = files
          \/ \A path \in trace'.opened :
                /\ \A e \in Range(Stored(files', path)) : Flagged(e)
                /\ \A e \in Range(Stored(files, path)) :
                      ~Flagged(e) => e \notin Range(Stored(files', path))]_vars

\* a push went through, pruned what it exported and kept an imported event
C2_Witness ==
    /\ Served("google_sync")
    /\ resp.status = 200
    /\ trace.inserted # <<>>
    /\ \E path \in trace.opened : Stored(files, path) # <<>>

\* C3. Exactly-once push: over any sequence of pushes, failed ones and
\* retries included, the calendar holds at most one event made from a local
\* event, and exactly one once a push has removed the local event.
C3_ExactlyOncePush ==
    [][Request("google_sync") =>
          \A path \in trace'.opened :
              \A e \in Range(Stored(files, path)) :
                  ~Flagged(e) =>
                      /\ Copies(google', e["uid"]) <= 1
                      /\ e \notin Range(Stored(files', path))
                            => Copies(google', e["uid"]) = 1]_vars

\* C4. A push issues no insert for an event flagged imported: every insert
\* is for an unflagged event, no event of the calendar was made from a
\* pulled event, and a push that went through counted every flagged event
\* as skipped.
C4_NoReExport ==
    /\ \A i \in 1..Len(trace.inserted) : ~Flagged(trace.inserted[i])
    /\ \A g \in BagToSet(google) : "origin" \in DOMAIN g => g["origin"] > 0
    /\ (Served("google_sync") /\ resp.status = 200) =>
          \A path \in trace.opened :
              trace.skipped = Len(SelectSeq(Stored(files, path), Flagged))

\* a push skipped a pulled event and exported a local one
C4_Witness ==
    /\ Served("google_sync")
    /\ resp.status = 200
    /\ trace.skipped > 0
    /\ trace.inserted # <<>>

\* C7. A push whose inserts all go through, on a store of k flagged and m
\* unflagged events, reports synced = m and skipped = k to the caller and
\* leaves exactly the k flagged events.
C7_PushReport ==
    [][(Request("google_sync") /\ resp'.status = 200) =>
          \A path \in trace'.opened :
              LET before == Stored(files, path)
              IN  /\ resp'.body["synced"] = Len(before) - Len(SelectSeq(before, Flagged))
                  /\ Stored(files', path) = SelectSeq(before, Flagged)
                  /\ "skipped" \in DOMAIN resp'.body
                  /\ resp'.body["skipped"] = Len(SelectSeq(before, Flagged))]_vars

----------------------------------------------------------------------------
(* Pull *)

\* C5. Idempotent pull: a pull that directly follows a pull of the same
\* browser, with the calendar unchanged in between, imports 0 events and
\* leaves every partition file as it was.
C5_IdempotentPull ==
    [][(/\ Served("import_google_to_local") /\ resp.status = 200
        /\ Request("import_google_to_local") /\ resp'.status = 200
        /\ trace'.who = trace.who)
          => resp'.body["count"] = 0 /\ files' = files]_vars

\* a pull found every event of a calendar that has some already in the store
C5_Witness ==
    /\ Served("import_google_to_local")
    /\ resp.status = 200
    /\ resp.body["count"] = 0
    /\ \E path \in trace.opened :
          \E e \in Range(Stored(files, path)) : Flagged(e)
    /\ \E g \in BagToSet(google) : DOMAIN parse_google_event_to_local(g) # {}

\* C6. Pull dedup: a remote event whose normalized title, date and time are
\* those of a stored event is not appended, the store has as many events of
\* that triple after the pull as before; a remote event that differs from
\* every stored event in one of the three is appended, once.
C6_PullDedup ==
    [][(Request("import_google_to_local") /\ resp'.status = 200) =>
          \A path \in trace'.opened : \A g \in BagToSet(google) :
              LET e == parse_google_event_to_local(g)
                  before == SameTriple(Stored(files, path), e)
                  after == SameTriple(Stored(files', path), e)
              IN  DOMAIN e # {} =>
                      after = (IF before > 0 THEN before ELSE 1)]_vars

\* a pull met a remote event with the triple of a stored, unflagged event,
\* and one with the same title and date at another time, which it imported
C6_Witness ==
    /\ Served("import_google_to_local")
    /\ resp.status = 200
    /\ resp.body["count"] > 0
    /\ \E path \in trace.opened : \E g \in BagToSet(google) :
          LET e == parse_google_event_to_local(g)
          IN  /\ DOMAIN e # {}
              /\ \E l \in Range(Stored(files, path)) :
                    ~Flagged(l) /\ SameTriple(<<l>>, e) = 1
              /\ SameTriple(Stored(files, path), e) = 1

----------------------------------------------------------------------------
(* Event store *)

\* C9. Store resilience: a request that loads a partition file that is
\* missing or holds invalid JSON gets an empty list from load_events and no
\* exception: get_events answers 200 with no events, add_event stores the
\* one new event, and no request ends in an uncaught exception.
C9_StoreResilience ==
    [][\A path \in trace'.opened :
          (/\ trace'.who \in Browsers
           /\ resp'.op \in {"get_events", "add_event", "delete_event",
                            "import_google_to_local", "google_sync"}
           /\ (path \notin DOMAIN files \/ ~files[path].valid))
             => /\ resp' # Uncaught(resp'.op)
                /\ resp'.op = "get_events" =>
                      resp' = Response("get_events", 200, [events |-> <<>>])
                /\ resp'.op = "add_event" =>
                      /\ resp'.status = 200
                      /\ Len(Stored(files', path)) = 1
                /\ resp'.op = "delete_event" => resp'.status = 404
                /\ resp'.op = "google_sync" =>
                      resp'.status = 200 /\ resp'.body["synced"] = 0]_vars

\* get_events answered with no events on a file that holds invalid JSON
C9_Witness ==
    /\ Served("get_events")
    /\ resp = Response("get_events", 200, [events |-> <<>>])
    /\ \E path \in trace.opened : path \in DOMAIN files /\ ~files[path].valid

----------------------------------------------------------------------------
(* The colour codec on its own: a batch of colours goes to the remote ids *)
(* of a push and back through the normalization of a pull                 *)

\* the hex values a local event can carry: the table's and one that is not
ColorInputs == {GOOGLE_COLOR_MAP[i][1] : i \in 1..Len(GOOGLE_COLOR_MAP)}
                   \cup {"#000000"}

Batches == UNION {[1..n -> ColorInputs] : n \in 1..MaxBatch}

InitColor ==
    /\ InitApp
    /\ \E batch \in Batches :
          codec = [stage |-> "hex", hex |-> batch, color_id |-> <<>>,
                   color |-> <<>>]

\* google_sync maps the colour of each event to its colorId
Encode ==
    /\ codec.stage = "hex"
    /\ codec' = [codec EXCEPT !.stage = "id",
                              !.color_id = [i \in 1..Len(codec.hex) |->
                                               ToRemoteId(codec.hex[i])]]
    /\ UNCHANGED <<inflight, GOOGLE_OAUTH_ENABLED, session, files, google, nextUid, resp,
                   trace>>

\* parse_google_event_to_local maps each colorId to a colour
Decode ==
    /\ codec.stage = "id"
    /\ codec' = [codec EXCEPT !.stage = "back",
                              !.color = [i \in 1..Len(codec.color_id) |->
                                            ToLocalHex(codec.color_id[i])]]
    /\ UNCHANGED <<inflight, GOOGLE_OAUTH_ENABLED, session, files, google, nextUid, resp,
                   trace>>

NextColor == Encode \/ Decode

SpecColor == InitColor /\ [][NextColor]_vars

\* C8. Colour round-trip: every hex value of the colour table, mapped to its
\* remote colour id and back, is itself again.
C8_ColorRoundTrip ==
    codec.stage = "back" =>
        \A i \in 1..Len(codec.hex) :
            codec.hex[i] \in {GOOGLE_COLOR_MAP[k][1] : k \in 1..Len(GOOGLE_COLOR_MAP)}
                => codec.color[i] = codec.hex[i]

\* a batch with a colour other than the default came back as it went, next
\* to a colour that is not in the table and came back as the default
C8_Witness ==
    /\ codec.stage = "back"
    /\ \E i, j \in 1..Len(codec.hex) :
          /\ codec.hex[i] = "#616161" /\ codec.color[i] = "#616161"
          /\ codec.hex[j] = "#000000" /\ codec.color[j] = "#4285f4"

----------------------------------------------------------------------------
(* The application with two browser sessions *)

\* the one browser that goes through the OAuth flow
Owner == {"b1"}

\* the request body the browsers post
IsoInputs == {data \in AddInputs : data["title"] = "Gym"}

\* the advisor's answers to them
IsoReplies == {reply \in AdvisorReplies : reply.kind \in {"exception", "no_match"}}

NextIso ==
    \/ \E b \in Browsers : guest_mode(b)
    \/ \E b \in Browsers, fresh \in TokenHex : get_events(b, fresh)
    \/ \E b \in Browsers, data \in IsoInputs, fresh \in TokenHex,
          written \in WriteOutcomes : add_event(b, data, fresh, written)
    \/ \E b \in Browsers, fresh \in TokenHex, written \in WriteOutcomes :
          delete_event(b, 0, fresh, written)
    \/ \E b \in Browsers, reply \in IsoReplies, fresh \in TokenHex :
          analyze_event(b, TRUE, TRUE, <<>>, reply, fresh)
    \/ \E b \in Owner : google_login(b)
    \/ \E b \in Owner : oauth2callback(b, TokenA, TRUE)
    \/ \E b \in Browsers, fresh \in TokenHex, written \in WriteOutcomes :
          import_google_to_local(b, TRUE, <<>>, fresh, written)
    \/ \E b \in Browsers, fresh \in TokenHex, written \in WriteOutcomes :
          google_sync(b, 0, fresh, written)
    \/ \E b \in Browsers : google_logout(b)

SpecIso == Init /\ [][NextIso]_vars

\* the session has a partition file without minting a token
HasPartition(sess) ==
    "credentials" \in DOMAIN sess \/ "session_id" \in DOMAIN sess

PartitionFile(sess) == get_user_events_file(sess, <<>>).file

IsGuest(sess) == "credentials" \notin DOMAIN sess

\* the file at path as it is on disk, <<>> when there is none
OnDisk(fs, path) == IF path \in DOMAIN fs THEN <<fs[path]>> ELSE <<>>

\* C10. Guest isolation: a request of one browser session neither opens nor
\* changes the partition file of another session when both are guests with
\* distinct session tokens, or when one is a guest and the other an
\* authenticated user; the file of a guest is never that of a user.
C10_GuestIsolation ==
    [][trace'.who \in Browsers =>
          \A b \in Browsers \ {trace'.who} :
              LET mine == session[trace'.who]
                  token == Get(session'[trace'.who], "session_id",
                               Get(mine, "session_id", <<>>))
                  theirs == session[b]
                  apart == \/ /\ IsGuest(mine) /\ IsGuest(theirs)
                              /\ token # Get(theirs, "session_id", <<>>)
                           \/ IsGuest(mine) # IsGuest(theirs)
              IN  (HasPartition(theirs) /\ apart) =>
                      /\ PartitionFile(theirs) \notin trace'.opened
                      /\ OnDisk(files', PartitionFile(theirs))
                            = OnDisk(files, PartitionFile(theirs))
                      /\ (HasPartition(mine) /\ IsGuest(mine) # IsGuest(theirs))
                            => PartitionFile(mine) # PartitionFile(theirs)]_vars

\* two guests with distinct tokens both hold events, and one of them has
\* just been served from its own file
C10_Witness ==
    \E a, b \in Browsers :
        /\ a # b
        /\ IsGuest(session[a]) /\ IsGuest(session[b])
        /\ "session_id" \in DOMAIN session[a]
        /\ "session_id" \in DOMAIN session[b]
        /\ session[a]["session_id"] # session[b]["session_id"]
        /\ trace.who = a
        /\ trace.opened = {PartitionFile(session[a])}
        /\ Stored(files, PartitionFile(session[a])) # <<>>
        /\ Stored(files, PartitionFile(session[b])) # <<>>

----------------------------------------------------------------------------
(* Two browser sessions that both go through the OAuth flow *)

\* the access tokens fetch_token hands to them
UserTokens == {TokenA, TokenB, TokenC}

NextUsers ==
    \/ \E b \in Browsers, fresh \in TokenHex : get_events(b, fresh)
    \/ \E b \in Browsers, data \in IsoInputs, fresh \in TokenHex,
          written \in WriteOutcomes : add_event(b, data, fresh, written)
    \/ \E b \in Browsers : google_login(b)
    \/ \E b \in Browsers, token \in UserTokens : oauth2callback(b, token, TRUE)
    \/ \E b \in Browsers : google_logout(b)

SpecUsers == Init /\ [][NextUsers]_vars

\* C11. Partition keys do not collide: two authenticated sessions that hold
\* different access tokens have different partition files, sessions with
\* the same key have the same file, and the file of an authenticated session
\* is user_ followed by the first 16 characters of its access token.
C11_PartitionKeys ==
    \A a, b \in Browsers :
        (~IsGuest(session[a]) /\ ~IsGuest(session[b])) =>
            LET mine == session[a]["credentials"].token
                theirs == session[b]["credentials"].token
            IN  /\ mine # theirs =>
                      PartitionFile(session[a]) # PartitionFile(session[b])
                /\ Take(mine, 16) = Take(theirs, 16) =>
                      PartitionFile(session[a]) = PartitionFile(session[b])
                /\ PartitionFile(session[a])
                      = <<EVENTS_DIR, "user_", Take(mine, 16), ".json">>

----------------------------------------------------------------------------
(* Requests side by side on one partition *)

\* C12. A load that runs while save_events calls on the same partition file
\* are between their open and the end of their json.dump gives a complete
\* list: the one the file holds from a save that has ended, the one it held
\* before one of the running saves, or the one a running save writes.
C12_AtomicSave ==
    [][(Request("get_events") /\ resp'.status = 200) =>
          \A path \in trace'.opened :
              LET saving == {t \in Tabs : /\ Tab(t).pc = "writing"
                                          /\ Tab(t).file = path}
              IN  saving # {} =>
                      \/ path \in DOMAIN files /\ files[path].valid
                      \/ \E t \in saving :
                            resp'.body["events"]
                                \in {Tab(t).before, Tab(t).data}]_vars

----------------------------------------------------------------------------
(* The requests that read the remote window, and the advisor *)

NextAdvisor ==
    \/ google_login(TabBrowser)
    \/ oauth2callback(TabBrowser, TokenA, TRUE)
    \/ \E g \in RemoteInputs : RemoteCreate(g)
    \/ \E described \in BOOLEAN, listed \in BOOLEAN,
          google_events \in Listings(google), reply \in AdvisorReplies,
          fresh \in MainHex :
          analyze_event(TabBrowser, described, listed, google_events, reply,
                        fresh)
    \/ \E listed \in BOOLEAN, google_events \in Listings(google) :
          import_google_calendar(TabBrowser, listed, google_events)
    \/ \E listed \in BOOLEAN, google_events \in Listings(google),
          fresh \in MainHex, written \in WriteOutcomes :
          import_google_to_local(TabBrowser, listed, google_events, fresh,
                                 written)

SpecAdvisor == Init /\ [][NextAdvisor]_vars

\* C13. A remote list request that fails is taken as an empty remote list
\* and fails no request: the advisor goes on with no remote context, the
\* display-only import answers success with no events, and the pull answers
\* success with count 0 and leaves the store as it was.
C13_FetchFailureRecovered ==
    [][(trace'.who \in Browsers /\ trace'.fetch = "failed") =>
          /\ trace'.remote = 0
          /\ resp'.op = "analyze_event" =>
                (trace'.reply.kind = "json" =>
                    resp'.body # [error |-> "exception"])
          /\ resp'.op = "import_google_calendar" =>
                resp' = Response("import_google_calendar", 200,
                                 [success |-> TRUE, events |-> <<>>,
                                  count |-> 0])
          /\ resp'.op = "import_google_to_local" =>
                /\ resp' = Response("import_google_to_local", 200,
                                    [success |-> TRUE, count |-> 0])
                /\ \A path \in DOMAIN files :
                      Stored(files', path) = Stored(files, path)]_vars

----------------------------------------------------------------------------
(* Pull and push without a credential *)

\* the step is a pull or a push of a browser whose session has no credential
Unauthenticated ==
    /\ trace'.who \in Browsers
    /\ resp'.op \in {"import_google_to_local", "google_sync"}
    /\ "credentials" \notin DOMAIN session[trace'.who]

\* the step makes no remote call and leaves the store and the session as
\* they were
NothingDone ==
    /\ trace'.fetch = "none"
    /\ trace'.inserted = <<>>
    /\ trace'.opened = {}
    /\ google' = google
    /\ files' = files
    /\ session' = session

\* C14 as claimed. Without a credential in the session, pull and push both
\* answer with the auth-required outcome, make no remote call and leave the
\* store unchanged.
C14_AuthRequiredClaimed ==
    [][Unauthenticated =>
          /\ resp'.status = 401
          /\ resp'.body = [auth_required |-> TRUE]
          /\ NothingDone]_vars

\* C14. Without a credential in the session, pull answers with the
\* auth-required outcome; push answers with it when Google OAuth is
\* configured, and with 503 "not configured" when it is not. Both make no
\* remote call and leave the store unchanged.
C14_AuthRequired ==
    [][Unauthenticated =>
          /\ IF resp'.op = "google_sync" /\ ~GOOGLE_OAUTH_ENABLED
             THEN /\ resp'.status = 503
                  /\ resp'.body = [error |-> "Google OAuth not configured"]
             ELSE /\ resp'.status = 401
                  /\ resp'.body = [auth_required |-> TRUE]
          /\ NothingDone]_vars

\* a guest who holds events pushed and was told to authenticate, with
\* OAuth configured; the events are still stored
C14_Witness ==
    /\ Served("google_sync")
    /\ GOOGLE_OAUTH_ENABLED
    /\ resp = Response("google_sync", 401, [auth_required |-> TRUE])
    /\ "credentials" \notin DOMAIN session[trace.who]
    /\ HasPartition(session[trace.who])
    /\ Stored(files, PartitionFile(session[trace.who])) # <<>>

----------------------------------------------------------------------------
(* A push whose insert fails *)

\* C15. A push is all-or-nothing: it either answers success, having
\* inserted every unflagged event and pruned them all from the store, or
\* it answers with an error and has committed nothing, neither to the
\* calendar nor to the store.
C15_PushAllOrNothing ==
    [][Request("google_sync") =>
          \/ /\ resp'.status = 200
             /\ \A path \in trace'.opened :
                   /\ trace'.inserted
                         = SelectSeq(Stored(files, path), LAMBDA e : ~Flagged(e))
                   /\ Stored(files', path)
                         = SelectSeq(Stored(files, path), Flagged)
          \/ /\ resp'.status >= 400
             /\ "success" \notin DOMAIN resp'.body
             /\ google' = google
             /\ files' = files]_vars

----------------------------------------------------------------------------
(* The advisor's answer *)

\* C16. Every analyze response with status 200 carries a requested event
\* with a non-empty time, 09:00 when the advisor gave none, and an integer
\* duration of at least 15, 15 when the advisor's was smaller; a reply that
\* is malformed or has no requested event gets an error response.
C16_AdvisorContract ==
    [][(Request("analyze_event") /\ "reply" \in DOMAIN trace') =>
          LET reply == trace'.reply
              structured == /\ reply.kind = "json"
                            /\ "requested_event" \in DOMAIN reply.data
          IN  /\ resp'.status = 200 =>
                    /\ "requested_event" \in DOMAIN resp'.body
                    /\ LET evt == resp'.body["requested_event"]
                           asked == reply.data["requested_event"]
                       IN  /\ evt["time"] # ""
                           /\ Get(asked, "time", "") = "" => evt["time"] = "09:00"
                           /\ evt["duration"] \in Int
                           /\ evt["duration"] >= 15
                           /\ ("duration" \in DOMAIN asked
                               /\ ParseInt(asked["duration"]) \in 0..15)
                                 => evt["duration"] = 15
              /\ ~structured =>
                    /\ resp'.status >= 400
                    /\ "error" \in DOMAIN resp'.body]_vars

----------------------------------------------------------------------------
(* Lost writes *)

\* C17. No lock, the last save wins: when a request ends its save, the store
\* holds the list that request made from its own load (or cannot be read),
\* whatever other requests saved to the same file in between; the witness
\* is an interleaving in which such a write of another request is lost.
C17_LastSaveWins ==
    [][\A t \in Tabs :
          (Tab(t).pc = "writing" /\ inflight'.tab[t].pc = "idle") =>
              /\ Stored(files', Tab(t).file) \in {Tab(t).data, <<>>}
              /\ \A e \in Range(Stored(files', Tab(t).file)) :
                    e \in Range(Tab(t).data)]_vars

\* a push has just been answered with success; an event that add_event
\* saved between the load and the save of the push was in the file when
\* the push opened it, and is now neither in the store nor in the calendar
C17_Witness ==
    /\ Served("google_sync")
    /\ resp.status = 200
    /\ \E t \in Tabs :
          /\ Tab(t).pc = "idle"
          /\ Tab(t).op = "google_sync"
          /\ Tab(t).file \in trace.opened
          /\ \E e \in Range(Tab(t).before) :
                /\ ~Flagged(e)
                /\ e \notin Range(Tab(t).events)
                /\ e \notin Range(Stored(files, Tab(t).file))
                /\ Copies(google, e["uid"]) = 0

----------------------------------------------------------------------------
(* The application on a disk that may refuse a write *)

NextFault ==
    \/ \E data \in RaceInputs, fresh \in MainHex,
          written \in FaultyWriteOutcomes :
          add_event(TabBrowser, data, fresh, written)
    \/ \E index \in 0..MaxIndex, fresh \in MainHex,
          written \in FaultyWriteOutcomes :
          delete_event(TabBrowser, index, fresh, written)
    \/ google_login(TabBrowser)
    \/ oauth2callback(TabBrowser, TokenA, TRUE)
    \/ \E google_events \in Listings(google), fresh \in MainHex,
          written \in FaultyWriteOutcomes :
          import_google_to_local(TabBrowser, TRUE, google_events, fresh,
                                 written)
    \/ \E fresh \in MainHex, written \in FaultyWriteOutcomes :
          google_sync(TabBrowser, 0, fresh, written)
    \/ \E g \in RaceRemote : RemoteCreate(g)

SpecFault == Init /\ [][NextFault]_vars

\* C18. A save that fails is swallowed: add, delete, pull and push answer
\* success all the same and the store holds what it held before the
\* request; after a push whose inserts all went through and whose save
\* failed, the events it exported are still in the store.
C18_SwallowedWriteFailure ==
    [][(/\ trace'.who \in Browsers
        /\ resp'.op \in {"add_event", "delete_event",
                         "import_google_to_local", "google_sync"}
        /\ "write" \in DOMAIN trace'
        /\ trace'.write # "written") =>
          /\ resp'.status = 200
          /\ resp'.body["success"]
          /\ \A path \in trace'.opened :
                /\ Stored(files', path) = Stored(files, path)
                /\ \A i \in 1..Len(trace'.inserted) :
                      trace'.inserted[i] \in Range(Stored(files', path))]_vars

----------------------------------------------------------------------------
(* The one save of a pull *)

\* thread t takes the step and is running a pull before or after it
PullStep(t) ==
    /\ inflight'.tab[t] # inflight.tab[t]
    /\ "import_google_to_local" \in {Tab(t).op, inflight'.tab[t].op}
    /\ Tab(t).pc # "idle" \/ inflight'.tab[t].pc # "idle"

\* C19. A pull saves once, after the loop: no turn of the loop changes a
\* partition file or answers; the save starts only when every candidate has
\* been taken and writes the whole merged list; the files change only in
\* the open and the dump of that save; and the answer 200 comes with the
\* end of that save.
C19_PullSavesOnce ==
    [][\A t \in Tabs : PullStep(t) =>
          LET mine == Tab(t)
              after == inflight'.tab[t]
          IN  /\ mine.pc = "loop" => (files' = files /\ resp' = resp)
              /\ (after.pc = "save" /\ mine.pc # "save") =>
                    /\ after.next = Len(after.todo) + 1
                    /\ after.data = after.events
              /\ files' # files => mine.pc \in {"save", "writing"}
              /\ mine.pc = "save" => after.pc = "writing"
              /\ mine.pc = "writing" =>
                    /\ after.pc = "idle"
                    /\ Stored(files', mine.file) \in {mine.data, <<>>}
              /\ (Request("import_google_to_local") /\ resp'.status = 200)
                    => mine.pc = "writing"]_vars

\* a pull that imported two events has just been answered: the file held
\* neither of them when its save opened it and the store holds both now
C19_Witness ==
    /\ Served("import_google_to_local")
    /\ resp.status = 200
    /\ resp.body["count"] = 2
    /\ \E t \in Tabs :
          LET mine == Tab(t)
          IN  /\ mine.pc = "idle"
              /\ mine.op = "import_google_to_local"
              /\ mine.count = 2
              /\ mine.file \in trace.opened
              /\ \A i \in 1..Len(mine.data) :
                    i > Len(mine.data) - 2 =>
                        /\ mine.data[i] \notin Range(mine.before)
                        /\ mine.data[i] \in Range(Stored(files, mine.file))

----------------------------------------------------------------------------
(* Deleting by position *)

\* C20. delete_event(index) with 0 <= index < length answers success and
\* leaves the list without the event at that position, the other events in
\* their order, those behind it one position down; with any other index it
\* answers 404 "Not found" and leaves the store unchanged.
C20_DeleteByIndex ==
    [][Request("delete_event") =>
          \A path \in trace'.opened :
              LET before == Stored(files, path)
                  after == Stored(files', path)
                  index == trace'.index
              IN  IF 0 <= index /\ index < Len(before)
                  THEN /\ resp' = Response("delete_event", 200,
                                           [success |-> TRUE])
                       /\ Len(after) = Len(before) - 1
                       /\ \A i \in 1..Len(after) :
                             after[i] = before[IF i <= index THEN i ELSE i + 1]
                  ELSE /\ resp' = Response("delete_event", 404,
                                           [error |-> "Not found"])
                       /\ files' = files]_vars

\* an event in the middle of the list has just been deleted: events before
\* its position and events behind it are still stored
C20_Witness ==
    /\ Served("delete_event")
    /\ resp.status = 200
    /\ trace.index >= 1
    /\ \E path \in trace.opened : Len(Stored(files, path)) > trace.index

----------------------------------------------------------------------------
(* Normalization of remote events *)

\* the colour ids of the palette
MappedIds == {GOOGLE_COLOR_MAP[i][2] : i \in 1..Len(GOOGLE_COLOR_MAP)}

\* the remote record is an all-day event: its start is a date
AllDay(g) ==
    /\ {"start", "end"} \subseteq DOMAIN g
    /\ "dateTime" \notin DOMAIN g["start"]
    /\ "date" \in DOMAIN g["start"]

\* the remote record is a timed event: start and end are date-times
Timed(g) ==
    /\ {"start", "end"} \subseteq DOMAIN g
    /\ "dateTime" \in DOMAIN g["start"]
    /\ "dateTime" \in DOMAIN g["end"]

\* the events the pull appended to the list before
Appended(before, after) == SubSeq(after, Len(before) + 1, Len(after))

\* the local event e is the remote record g in the local schema
NormalizedAs(g, e) ==
    /\ AllDay(g) \/ Timed(g)
    /\ e["title"] = Get(g, "summary", "Bez tytulu")
    /\ AllDay(g) =>
          /\ e["date"] = FormatDate(g["start"]["date"])
          /\ e["time"] = "00:00"
          /\ e["duration"] = 1440
    /\ Timed(g) =>
          /\ e["date"] = FormatDate(g["start"]["dateTime"].day)
          /\ e["time"] = FormatHM(g["start"]["dateTime"].min)
          /\ e["duration"] =
                (g["end"]["dateTime"].day - g["start"]["dateTime"].day) * 1440
                + g["end"]["dateTime"].min - g["start"]["dateTime"].min
    /\ ("colorId" \notin DOMAIN g \/ g["colorId"] \notin MappedIds) =>
          e["color"] = "#4285f4"

\* C21. Remote-to-local normalization: every event a pull appends is a
\* remote record in the local schema: an all-day record with time 00:00 and
\* duration 1440, a timed record with the minutes from its start to its end
\* as duration, a record with no or an unmapped colour id in the blue
\* #4285f4. A record that cannot be normalized is not appended and not
\* counted, and the pull still answers 200 with every other record of the
\* calendar in the store.
C21_Normalization ==
    [][Request("import_google_to_local") =>
          /\ trace'.fetch = "ok" => resp'.status = 200
          /\ resp'.status = 200 =>
                \A path \in trace'.opened :
                    LET added == Appended(Stored(files, path),
                                          Stored(files', path))
                    IN  /\ resp'.body["count"] = Len(added)
                        /\ \A i \in 1..Len(added) :
                              \E g \in BagToSet(google) : NormalizedAs(g, added[i])
                        /\ \A g \in BagToSet(google) :
                              (AllDay(g) \/ Timed(g)) =>
                                  \E e \in Range(Stored(files', path)) :
                                      /\ e["title"] = Get(g, "summary", "Bez tytulu")
                                      /\ e["date"] = FormatDate(
                                            IF AllDay(g) THEN g["start"]["date"]
                                            ELSE g["start"]["dateTime"].day)
                                      /\ e["time"] =
                                            IF AllDay(g) THEN "00:00"
                                            ELSE FormatHM(g["start"]["dateTime"].min)]_vars

\* a pull met a record it cannot normalize and an all-day record with an
\* unmapped colour id, and imported the all-day one alone
C21_Witness ==
    /\ Served("import_google_to_local")
    /\ resp.status = 200
    /\ resp.body["count"] = 1
    /\ \E g \in BagToSet(google) : ~AllDay(g) /\ ~Timed(g)
    /\ \E g \in BagToSet(google) :
          AllDay(g) /\ "colorId" \in DOMAIN g /\ g["colorId"] \notin MappedIds
    /\ \E path \in trace.opened :
          LET events == Stored(files, path)
          IN  /\ events # <<>>
              /\ events[Len(events)]["time"] = "00:00"
              /\ events[Len(events)]["duration"] = 1440
              /\ events[Len(events)]["color"] = "#4285f4"

\* C22. Pull only appends: after a pull that answered 200 the list the
\* store held before is the beginning of the list it holds now, unchanged;
\* every event after it is flagged imported, no two of them have the same
\* title, date and time, and the count of the answer is the number of them.
C22_PullOnlyAppends ==
    [][(Request("import_google_to_local") /\ resp'.status = 200) =>
          \A path \in trace'.opened :
              LET before == Stored(files, path)
                  after == Stored(files', path)
                  added == Appended(before, after)
              IN  /\ Len(before) <= Len(after)
                  /\ SubSeq(after, 1, Len(before)) = before
                  /\ \A i \in 1..Len(added) :
                        /\ "imported_from_google" \in DOMAIN added[i]
                        /\ added[i]["imported_from_google"] = TRUE
                        /\ SameTriple(added, added[i]) = 1
                  /\ resp'.body["count"] = Len(after) - Len(before)]_vars

\* a pull appended two events behind an event the browser had added
C22_Witness ==
    /\ Served("import_google_to_local")
    /\ resp.status = 200
    /\ resp.body["count"] = 2
    /\ \E path \in trace.opened :
          LET events == Stored(files, path)
          IN  /\ Len(events) = 3
              /\ "uid" \in DOMAIN events[1]
              /\ ~Flagged(events[1])
              /\ Flagged(events[2]) /\ Flagged(events[3])

----------------------------------------------------------------------------
(* Push, pull, push *)

\* the events a and b have the same title, date and time
Same(a, b) ==
    /\ a["title"] = b["title"]
    /\ a["date"] = b["date"]
    /\ a["time"] = b["time"]

\* the step is the request op of the browser of the last request, and both
\* requests answered 200
Follows(first, op) ==
    /\ Served(first) /\ resp.status = 200
    /\ Request(op) /\ resp'.status = 200
    /\ trace'.who = trace.who

\* C23. Push, pull, push is stable. A pull that follows a push that went
\* through stores every event the push exported, flagged imported and with
\* the same title, date and time; a push that follows a pull on a store of
\* flagged events reports synced = 0 and inserts nothing. A pull made while
\* an unflagged event is in the store keeps that event unflagged and appends
\* no event with its title, date and time, and the next push inserts it into
\* the calendar once more.
C23_PushPullPush ==
    /\ [][Follows("google_sync", "import_google_to_local") =>
             \A path \in trace'.opened :
                 \A i \in 1..Len(trace.inserted) :
                     \E e \in Range(Stored(files', path)) :
                         Flagged(e) /\ Same(e, trace.inserted[i])]_vars
    /\ [][Follows("import_google_to_local", "google_sync") =>
             \A path \in trace'.opened :
                 (\A e \in Range(Stored(files, path)) : Flagged(e)) =>
                     /\ resp'.body["synced"] = 0
                     /\ google' = google]_vars
    /\ [][(Request("import_google_to_local") /\ resp'.status = 200) =>
             \A path \in trace'.opened :
                 \A e \in Range(Stored(files, path)) :
                     ~Flagged(e) =>
                         /\ e \in Range(Stored(files', path))
                         /\ SameTriple(Stored(files', path), e)
                               = SameTriple(Stored(files, path), e)]_vars
    /\ [][(Request("google_sync") /\ resp'.status = 200) =>
             \A path \in trace'.opened :
                 \A e \in Range(Stored(files, path)) :
                     ~Flagged(e) =>
                         Copies(google', e["uid"]) = Copies(google, e["uid"]) + 1]_vars

====
